---- MODULE Spec2Model ----
(***************************************************************************)
(* Model of pr-delta/pr_delta.py: URL resolution (extract_pr_info), the    *)
(* GitHub and GitLab fetchers, the classifier/aggregator (summarize_files) *)
(* and the top-level pipeline (main).                                      *)
(*                                                                         *)
(* Python strings are modelled as sequences of one-character strings, so   *)
(* that strip, split, join, lower, startswith, endswith, "in" and the      *)
(* regular expressions are computed character by character.                *)
(***************************************************************************)
EXTENDS Integers, Sequences, FiniteSets, TLC

VARIABLES
    pc,             \* position of the running operation
    given,          \* the origin and path segments pr_url was written from
    pr_url,         \* args.pr_url, a string
    args,           \* the other command line arguments of main
    env,            \* os.environ: GITHUB_TOKEN and GITLAB_TOKEN
    ref,            \* what extract_pr_info returned or raised
    page,           \* fetch_pr_files: the page to request next
    all_files,      \* fetch_pr_files: the files accumulated so far
    requests,       \* the HTTP exchanges made so far, oldest first
    files,          \* the file list handed to summarize_files
    include_tests,  \* the include_tests argument of summarize_files
    summary,        \* what summarize_files returned
    diff,           \* the GitLab "changes" array handed to the diff counter
    out             \* the lines printed so far

vars == <<pc, given, pr_url, args, env, ref, page, all_files, requests, files,
          include_tests, summary, diff, out>>

(***************************************************************************)
(* Bounds of the model.                                                    *)
(***************************************************************************)
MaxSegs == 6        \* longest URL path, in segments
MaxFiles == 2       \* longest file list handed to summarize_files
MaxDiffLen == 5     \* longest enumerated diff text, in characters
MaxPages == 2       \* most non-empty pages the GitHub server returns

(***************************************************************************)
(* Python string primitives.                                               *)
(***************************************************************************)
None == "None"

UpperChars == <<"A","B","C","D","E","F","G","H","I","J","K","L","M",
                "N","O","P","Q","R","S","T","U","V","W","X","Y","Z">>
LowerChars == <<"a","b","c","d","e","f","g","h","i","j","k","l","m",
                "n","o","p","q","r","s","t","u","v","w","x","y","z">>
Digits == {"0","1","2","3","4","5","6","7","8","9"}

Range(s) == {s[i] : i \in 1..Len(s)}

\* str.lower(), one character
LowerChar(c) ==
    IF \E i \in 1..Len(UpperChars) : UpperChars[i] = c
    THEN LowerChars[CHOOSE i \in 1..Len(UpperChars) : UpperChars[i] = c]
    ELSE c

\* str.lower()
lower(s) == [i \in 1..Len(s) |-> LowerChar(s[i])]

\* str.startswith(p)
startswith(s, p) == Len(p) <= Len(s) /\ SubSeq(s, 1, Len(p)) = p

\* str.endswith(p)
endswith(s, p) == Len(p) <= Len(s) /\ SubSeq(s, Len(s) - Len(p) + 1, Len(s)) = p

\* sub in s
contains(s, sub) ==
    \E i \in 0..(Len(s) - Len(sub)) : SubSeq(s, i + 1, i + Len(sub)) = sub

\* s.find(c) for a one-character c, 1-based; 0 when absent
find(s, c) ==
    IF \E i \in 1..Len(s) : s[i] = c
    THEN CHOOSE i \in 1..Len(s) : s[i] = c /\ \A j \in 1..(i - 1) : s[j] # c
    ELSE 0

RECURSIVE lstrip(_, _)
lstrip(s, c) == IF s # <<>> /\ Head(s) = c THEN lstrip(Tail(s), c) ELSE s

RECURSIVE rstrip(_, _)
rstrip(s, c) ==
    IF s # <<>> /\ s[Len(s)] = c THEN rstrip(SubSeq(s, 1, Len(s) - 1), c) ELSE s

\* str.strip(c)
strip(s, c) == rstrip(lstrip(s, c), c)

\* str.split(c): never empty, "".split(c) is [""]
RECURSIVE split(_, _)
split(s, c) ==
    LET i == find(s, c) IN
    IF i = 0 THEN <<s>>
    ELSE <<SubSeq(s, 1, i - 1)>> \o split(SubSeq(s, i + 1, Len(s)), c)

\* c.join(parts)
RECURSIVE join(_, _)
join(parts, c) ==
    IF parts = <<>> THEN <<>>
    ELSE IF Len(parts) = 1 THEN parts[1]
    ELSE parts[1] \o <<c>> \o join(Tail(parts), c)

\* list.index(x), 1-based; 0 when x is not in the list
index(l, x) ==
    IF \E i \in 1..Len(l) : l[i] = x
    THEN CHOOSE i \in 1..Len(l) : l[i] = x /\ \A j \in 1..(i - 1) : l[j] # x
    ELSE 0

(***************************************************************************)
(* urllib.parse.urlparse, as far as extract_pr_info reads it: the scheme   *)
(* is cut at the first ':', the netloc follows a leading "//" up to the    *)
(* first of '/', '?' and '#', and the path ends at the first '#' or '?'.   *)
(***************************************************************************)
SchemeChars == Range(UpperChars) \cup Range(LowerChars) \cup Digits \cup {"+", "-", "."}

FirstOf(s, cs) ==
    IF \E i \in 1..Len(s) : s[i] \in cs
    THEN CHOOSE i \in 1..Len(s) : s[i] \in cs /\ \A j \in 1..(i - 1) : s[j] \notin cs
    ELSE Len(s) + 1

urlparse(url) ==
    LET colon == find(url, ":")
        hasScheme == /\ colon > 1
                     /\ url[1] \in Range(UpperChars) \cup Range(LowerChars)
                     /\ \A j \in 1..(colon - 1) : url[j] \in SchemeChars
        rest == IF hasScheme THEN SubSeq(url, colon + 1, Len(url)) ELSE url
        hasNetloc == startswith(rest, <<"/", "/">>)
        afterSlashes == SubSeq(rest, 3, Len(rest))
        delim == FirstOf(afterSlashes, {"/", "?", "#"})
        netloc == IF hasNetloc THEN SubSeq(afterSlashes, 1, delim - 1) ELSE <<>>
        tail == IF hasNetloc THEN SubSeq(afterSlashes, delim, Len(afterSlashes)) ELSE rest
        path == SubSeq(tail, 1, FirstOf(tail, {"?", "#"}) - 1)
    IN [netloc |-> netloc, path |-> path]

(***************************************************************************)
(* extract_pr_info.  The result is the returned tuple (ok = TRUE) or the   *)
(* message of the ValueError raised (ok = FALSE).                          *)
(***************************************************************************)
S_github_com == <<"g","i","t","h","u","b",".","c","o","m">>
S_gitlab_com == <<"g","i","t","l","a","b",".","c","o","m">>
S_pull == <<"p","u","l","l">>
S_merge_requests == <<"m","e","r","g","e","_","r","e","q","u","e","s","t","s">>

Returned(platform, owner, repo, number) ==
    [ok |-> TRUE, platform |-> platform, owner |-> owner, repo |-> repo,
     number |-> number, error |-> None]

Raised(msg) ==
    [ok |-> FALSE, platform |-> None, owner |-> <<>>, repo |-> <<>>,
     number |-> <<>>, error |-> msg]

NoRef == Raised(None)

\* path_parts_of without the strip('/')
path_parts_unstripped(url) == split(urlparse(url).path, "/")

\* parsed.path.strip('/').split('/')
path_parts_of(url) == split(strip(urlparse(url).path, "/"), "/")

\* parsed.netloc.lower()
host_of(url) == lower(urlparse(url).netloc)

extract_github(path_parts) ==
    IF Len(path_parts) < 4 \/ path_parts[Len(path_parts) - 1] # S_pull
    THEN Raised("Invalid GitHub PR URL")
    ELSE Returned("github", path_parts[1], path_parts[2], path_parts[4])

extract_gitlab(path_parts) ==
    LET mr_idx == index(path_parts, S_merge_requests) - 1    \* 0-based, as in the source
        at(i) == path_parts[i + 1]                          \* 0-based read
    IN
    IF index(path_parts, S_merge_requests) = 0
    THEN Raised("Invalid GitLab MR URL")
    ELSE IF mr_idx < 2 \/ mr_idx + 1 >= Len(path_parts)
    THEN Raised("Invalid GitLab MR URL")
    ELSE LET repo == at(mr_idx - 2)
             owner0 == IF mr_idx - 3 >= 0 THEN at(mr_idx - 3) ELSE <<>>
             mr_number == at(mr_idx + 1)
             owner == IF mr_idx - 3 > 0
                      THEN join(SubSeq(path_parts, 1, mr_idx - 2), "/")
                      ELSE owner0
         IN Returned("gitlab", owner, repo, mr_number)

extract_pr_info(url) ==
    LET host == host_of(url)
        path_parts == path_parts_of(url)
    IN
    IF contains(host, S_github_com) THEN extract_github(path_parts)
    ELSE IF contains(host, S_gitlab_com) THEN extract_gitlab(path_parts)
    ELSE Raised("Unsupported URL: Only GitHub and GitLab are supported.")

(***************************************************************************)
(* File classification: is_test_file and is_config_file.                   *)
(* Each pattern of EXCLUDE_PATTERNS is ".*" literal ".*" under re.search   *)
(* with IGNORECASE, i.e. one of its literal alternatives occurs somewhere  *)
(* in the lowercased path.                                                 *)
(***************************************************************************)
EXCLUDE_PATTERNS == <<
    {<<"/","t","e","s","t","/">>, <<"/","t","e","s","t","s","/">>},
    {<<"t","e","s","t">>},
    {<<"s","p","e","c">>},
    {<<"_","t","e","s","t",".">>},
    {<<"_","s","p","e","c",".">>} >>

CONFIG_EXTENSIONS == {
    <<".","y","m","l">>, <<".","y","a","m","l">>, <<".","j","s","o","n">>,
    <<".","t","o","m","l">>, <<".","x","m","l">>,
    <<".","p","r","o","p","e","r","t","i","e","s">>,
    <<".","c","o","n","f">>, <<".","c","f","g">>, <<".","i","n","i">> }

\* p.search(path)
search(p, path) == \E lit \in p : contains(lower(path), lit)

is_test_file(path) ==
    \E k \in 1..Len(EXCLUDE_PATTERNS) : search(EXCLUDE_PATTERNS[k], path)

is_config_file(path) == \E e \in CONFIG_EXTENSIONS : endswith(path, e)

(***************************************************************************)
(* summarize_files: one pass over the files, in order.                     *)
(***************************************************************************)
EmptySummary ==
    [total_added |-> 0, total_deleted |-> 0, total_changes |-> 0,
     file_changes |-> <<>>]

\* skipped with the include_tests flag ignored
skipped_always(path, incl) == is_test_file(path)

\* the "continue" of the loop body
skipped(path, incl) == ~incl /\ is_test_file(path)

\* summarize_step with the additions summed into total_changes
summarize_step_adds(acc, file, incl) ==
    IF skipped(file.filename, incl) THEN acc
    ELSE [total_added |-> acc.total_added + file.additions,
          total_deleted |-> acc.total_deleted + file.deletions,
          total_changes |-> acc.total_changes + file.additions,
          file_changes |-> Append(acc.file_changes,
              [path |-> file.filename,
               additions |-> file.additions,
               deletions |-> file.deletions,
               changes |-> file.changes,
               net_change |-> file.additions - file.deletions,
               is_config |-> is_config_file(file.filename)])]

\* one iteration of the loop body on an accumulator
summarize_step(acc, file, incl) ==
    IF skipped(file.filename, incl) THEN acc
    ELSE [total_added |-> acc.total_added + file.additions,
          total_deleted |-> acc.total_deleted + file.deletions,
          total_changes |-> acc.total_changes + file.changes,
          file_changes |-> Append(acc.file_changes,
              [path |-> file.filename,
               additions |-> file.additions,
               deletions |-> file.deletions,
               changes |-> file.changes,
               net_change |-> file.additions - file.deletions,
               is_config |-> is_config_file(file.filename)])]

RECURSIVE summarize_loop(_, _, _)
summarize_loop(acc, fs, incl) ==
    IF fs = <<>> THEN acc
    ELSE summarize_loop(summarize_step(acc, Head(fs), incl), Tail(fs), incl)

summarize_files(fs, incl) == summarize_loop(EmptySummary, fs, incl)

(***************************************************************************)
(* fetch_mr_files_gitlab: additions and deletions counted from diff text.  *)
(***************************************************************************)
LineBreaks == {"\n", "\r"}

\* str.splitlines() on "\n", "\r" and "\r\n"
RECURSIVE splitlines(_)
splitlines(s) ==
    IF s = <<>> THEN <<>>
    ELSE LET i == FirstOf(s, LineBreaks) IN
         IF i > Len(s) THEN <<s>>
         ELSE LET skip == IF s[i] = "\r" /\ i < Len(s) /\ s[i + 1] = "\n"
                          THEN 2 ELSE 1
              IN <<SubSeq(s, 1, i - 1)>> \o splitlines(SubSeq(s, i + skip, Len(s)))

\* is_added with the "+++" header counted
is_added_header(line) == startswith(line, <<"+">>)

is_added(line) == startswith(line, <<"+">>) /\ ~startswith(line, <<"+","+","+">>)

is_deleted(line) == startswith(line, <<"-">>) /\ ~startswith(line, <<"-","-","-">>)

\* the inner loop: <<added, deleted>> after the lines of one diff
RECURSIVE count_lines(_, _, _)
count_lines(lines, added, deleted) ==
    IF lines = <<>> THEN <<added, deleted>>
    ELSE IF is_added(Head(lines)) THEN count_lines(Tail(lines), added + 1, deleted)
    ELSE IF is_deleted(Head(lines)) THEN count_lines(Tail(lines), added, deleted + 1)
    ELSE count_lines(Tail(lines), added, deleted)

\* the record appended to file_list for one entry of "changes"
gitlab_file(f) ==
    LET c == count_lines(splitlines(f.diff), 0, 0) IN
    [filename |-> f.new_path, additions |-> c[1], deletions |-> c[2],
     changes |-> c[1] + c[2]]

\* the file_list built from the "changes" array
gitlab_file_list(changes) == [i \in 1..Len(changes) |-> gitlab_file(changes[i])]

(***************************************************************************)
(* fetch_pr_files: one iteration of the "while True" loop on a response.   *)
(* outcome "raise" is the RuntimeError, "return" the break, "loop" the     *)
(* next iteration.                                                         *)
(***************************************************************************)
HTTP_OK == 200

ApiError(api, r) == [api |-> api, status |-> r.status, text |-> r.text]

NoError == [api |-> None, status |-> 0, text |-> None]

\* fetch_pr_files_step with the page number left as it is
fetch_pr_files_step_same_page(acc, pg, r) ==
    IF r.status # HTTP_OK
    THEN [outcome |-> "raise", error |-> ApiError("GitHub API error", r),
          all_files |-> acc, page |-> pg]
    ELSE IF r.files = <<>>
    THEN [outcome |-> "return", error |-> NoError, all_files |-> acc, page |-> pg]
    ELSE [outcome |-> "loop", error |-> NoError,
          all_files |-> acc \o r.files, page |-> pg]

\* fetch_pr_files_step with a failed request taken for the last page
fetch_pr_files_step_partial(acc, pg, r) ==
    IF r.status # HTTP_OK \/ r.files = <<>>
    THEN [outcome |-> "return", error |-> NoError, all_files |-> acc, page |-> pg]
    ELSE [outcome |-> "loop", error |-> NoError,
          all_files |-> acc \o r.files, page |-> pg + 1]

fetch_pr_files_step(acc, pg, r) ==
    IF r.status # HTTP_OK
    THEN [outcome |-> "raise", error |-> ApiError("GitHub API error", r),
          all_files |-> acc, page |-> pg]
    ELSE IF r.files = <<>>
    THEN [outcome |-> "return", error |-> NoError, all_files |-> acc, page |-> pg]
    ELSE [outcome |-> "loop", error |-> NoError,
          all_files |-> acc \o r.files, page |-> pg + 1]

\* fetch_mr_files_gitlab on its single response
fetch_mr_files_gitlab(r) ==
    IF r.status # HTTP_OK
    THEN [outcome |-> "raise", error |-> ApiError("GitLab API error", r),
          file_list |-> <<>>]
    ELSE [outcome |-> "return", error |-> NoError,
          file_list |-> gitlab_file_list(r.changes)]

(***************************************************************************)
(* Presenter: truncate_middle and the printed lines.                       *)
(***************************************************************************)
DEFAULT_MAX_LENGTH == 60

\* str.ljust(n)
ljust(s, n) == IF Len(s) >= n THEN s ELSE s \o [i \in 1..(n - Len(s)) |-> " "]

truncate_middle(path, max_length) ==
    IF Len(path) <= max_length THEN ljust(path, max_length)
    ELSE LET part_len == (max_length - 3) \div 2 IN
         ljust(SubSeq(path, 1, part_len) \o <<".", ".", ".">>
                 \o SubSeq(path, Len(path) - part_len + 1, Len(path)),
               max_length)

\* f['path'][-60:] left-justified to 60
clip_path(path) ==
    ljust(IF Len(path) <= DEFAULT_MAX_LENGTH THEN path
          ELSE SubSeq(path, Len(path) - DEFAULT_MAX_LENGTH + 1, Len(path)),
          DEFAULT_MAX_LENGTH)

Line(kind, text, path, nums, err) ==
    [kind |-> kind, text |-> text, path |-> path, nums |-> nums, err |-> err]

Guidance(text) == Line("guidance", text, <<>>, <<>>, NoError)

\* print(f"Error: {e}") for a ValueError
ErrorLine(msg) == Line("Error", msg, <<>>, <<>>, NoError)

\* print(f"Error: {e}") for the RuntimeError of a fetcher
ApiErrorLine(e) == Line("Error", e.api, <<>>, <<>>, e)

TotalsLines(sm, incl) ==
    << Line("summary_header",
            IF incl THEN " (including test files)" ELSE " (excluding test files)",
            <<>>, <<>>, NoError),
       Line("added", "Lines added:", <<>>, <<sm.total_added>>, NoError),
       Line("deleted", "Lines deleted:", <<>>, <<sm.total_deleted>>, NoError),
       Line("changes", "Total changes:", <<>>, <<sm.total_changes>>, NoError) >>

RowLine(f, truncate) ==
    Line("row", IF f.is_config THEN "Yes" ELSE "No",
         IF truncate THEN ljust(truncate_middle(f.path, DEFAULT_MAX_LENGTH),
                                DEFAULT_MAX_LENGTH)
         ELSE clip_path(f.path),
         <<f.additions, f.deletions, f.changes, f.net_change>>, NoError)

FileLines(sm, incl, truncate) ==
    << Line("files_header", IF incl THEN "all files" ELSE "non-test files",
            <<>>, <<>>, NoError),
       Line("columns", "File +Add -Del Change Net Config?", <<>>, <<>>, NoError),
       Line("separator", "-", <<>>, <<>>, NoError) >>
    \o [i \in 1..Len(sm.file_changes) |-> RowLine(sm.file_changes[i], truncate)]

\* the prints of main after summarize_files
Rendered(sm, incl, show, truncate) ==
    TotalsLines(sm, incl) \o (IF show THEN FileLines(sm, incl, truncate) ELSE <<>>)

(***************************************************************************)
(* Tokens of main.                                                         *)
(***************************************************************************)
\* Python "a or b"
Or(a, b) == IF a \notin {None, ""} THEN a ELSE b

github_token(a, e) == Or(a.token, e.GITHUB_TOKEN)

gitlab_token(a, e) == Or(a.token, e.GITLAB_TOKEN)

\* token_missing with the empty string taken for a token
token_missing_none(t) == t = None

\* "not token"
token_missing(t) == t \in {None, ""}

(***************************************************************************)
(* Inputs.                                                                 *)
(***************************************************************************)
\* all sequences over S of length at most n
SeqsUpTo(S, n) == UNION {[1..k -> S] : k \in 0..n}

\* an origin: the text before the path, and the host it names
Origin(text, host) == [text |-> text, host |-> host]

\* an URL from its origin and its path segments
MkUrl(origin, segs) == origin.text \o <<"/">> \o join(segs, "/")

Given(origin, segs) == [origin |-> origin, segs |-> segs]

NoGiven == Given(Origin(<<>>, <<>>), <<>>)

O_github == Origin(<<"h","t","t","p","s",":","/","/","g","i","t","h","u","b",".","c","o","m">>, <<"g","i","t","h","u","b",".","c","o","m">>)
O_github_upper == Origin(<<"H","T","T","P",":","/","/","w","w","w",".","G","i","t","H","u","b",".","C","O","M">>, <<"w","w","w",".","G","i","t","H","u","b",".","C","O","M">>)
O_gitlab == Origin(<<"h","t","t","p","s",":","/","/","G","i","t","L","a","b",".","c","o","m">>, <<"G","i","t","L","a","b",".","c","o","m">>)
O_both == Origin(<<"h","t","t","p","s",":","/","/","g","i","t","l","a","b",".","c","o","m",".","g","i","t","h","u","b",".","c","o","m">>, <<"g","i","t","l","a","b",".","c","o","m",".","g","i","t","h","u","b",".","c","o","m">>)
O_noscheme == Origin(<<"g","i","t","h","u","b",".","c","o","m">>, <<>>)
O_other == Origin(<<"h","t","t","p","s",":","/","/","e","x","a","m","p","l","e",".","o","r","g">>, <<"e","x","a","m","p","l","e",".","o","r","g">>)

GithubOrigins == {O_github, O_github_upper}
GitlabOrigins == {O_gitlab}
BothOrigins == {O_both}
OtherOrigins == {O_noscheme, O_other}

GithubSegs == {<<>>, <<"o">>, S_pull, <<"7">>}
GitlabSegs == {<<>>, <<"g">>, <<"p">>, <<"-">>, S_merge_requests, <<"7">>}
BothSegs == {<<"g">>, <<"-">>, S_merge_requests, <<"7">>}
OtherSegs == {<<"o">>, S_pull, <<"7">>}

P_main == <<"s","r","c","/","m","a","i","n",".","g","o">>
P_test == <<"t","e","s","t","/","m","a","i","n","_","t","e","s","t",".","g","o">>
P_spec == <<"a","/","I","n","S","P","E","C","t","o","r",".","g","o">>
P_config == <<"a","/","b","/","c","o","n","f","i","g",".","y","a","m","l">>
P_long == [i \in 1..(DEFAULT_MAX_LENGTH + 5) |->
              IF i % 4 = 0 THEN "/" ELSE IF i % 4 = 1 THEN "a" ELSE "b"]

Paths == {P_main, P_test, P_spec, P_config}

File(p, a, d, c) == [filename |-> p, additions |-> a, deletions |-> d, changes |-> c]

\* file records as summarize_files accepts them: the "changes" field is read
\* from the record, whatever the additions and deletions are
Additions == {0, 2}
Deletions == {0, 1}
Excess == {0, 1}

FileDomain ==
    UNION {{File(p, a, d, a + d + x) : p \in Paths, x \in Excess} :
           a \in Additions, d \in Deletions}

FileInputs == SeqsUpTo(FileDomain, MaxFiles)

DiffAlphabet == {"+", "-", "x", "\n", "\r"}
DiffExample == <<"+","+","+"," ","b","/","f","\n","+","f","o","o","\n","-","-","-"," ","a","/","f","\n","-","b","a","r","\n","+","b","a","z">>

Change(p, d) == [new_path |-> p, diff |-> d]

(***************************************************************************)
(* What the servers may answer.                                            *)
(***************************************************************************)
Response(status, text, fs, changes) ==
    [status |-> status, text |-> text, files |-> fs, changes |-> changes]

PageA == <<File(P_main, 2, 1, 3)>>
PageB == <<File(P_test, 1, 0, 1), File(P_long, 0, 1, 1)>>

ErrorResponses ==
    {Response(st, tx, <<>>, <<>>) : st \in {404, 500}, tx \in {"Not Found"}}

GithubResponses ==
    {Response(HTTP_OK, "json", pg, <<>>) : pg \in {<<>>, PageA, PageB}}
    \cup ErrorResponses

GitlabResponses ==
    {Response(HTTP_OK, "json", <<>>, ch) :
        ch \in {<<>>, <<Change(P_main, DiffExample)>>,
                <<Change(P_test, <<"+", "x">>), Change(P_config, <<"-", "x", "\n">>)>>}}
    \cup ErrorResponses

MainGiven ==
    { Given(O_github, <<<<"o">>, <<"r">>, S_pull, <<"7">>>>),
      Given(O_gitlab, <<<<"g">>, <<"p">>, <<"-">>, S_merge_requests, <<"7">>>>),
      Given(O_github, <<<<"o">>, <<"r">>>>),
      Given(O_other, <<<<"o">>, <<"r">>, S_pull, <<"7">>>>) }

Tokens == {None, "", "tok"}

NoArgs == [token |-> None, show_files |-> FALSE, truncate_paths |-> FALSE]
NoEnv == [GITHUB_TOKEN |-> None, GITLAB_TOKEN |-> None]

Request(platform, pg, token, r) ==
    [platform |-> platform, page |-> pg, token |-> token, response |-> r]

(***************************************************************************)
(* The pipeline of main.                                                   *)
(***************************************************************************)
Init ==
    /\ pc = "resolve"
    /\ given \in MainGiven
    /\ pr_url = MkUrl(given.origin, given.segs)
    /\ args \in [token : Tokens, show_files : BOOLEAN, truncate_paths : BOOLEAN]
    /\ env \in [GITHUB_TOKEN : Tokens, GITLAB_TOKEN : Tokens]
    /\ include_tests \in BOOLEAN
    /\ ref = NoRef
    /\ page = 0
    /\ all_files = <<>>
    /\ requests = <<>>
    /\ files = <<>>
    /\ summary = EmptySummary
    /\ diff = <<>>
    /\ out = <<>>

\* platform, owner, repo, pr_number = extract_pr_info(args.pr_url)
Resolve ==
    /\ pc = "resolve"
    /\ ref' = extract_pr_info(pr_url)
    /\ IF ref'.ok
       THEN pc' = "token" /\ out' = out
       ELSE pc' = "done" /\ out' = Append(out, ErrorLine(ref'.error))
    /\ UNCHANGED <<given, pr_url, args, env, page, all_files, requests, files,
                   include_tests, summary, diff>>

\* the token test of the platform's branch
CheckToken ==
    /\ pc = "token"
    /\ IF ref.platform = "github"
       THEN IF token_missing(github_token(args, env))
            THEN /\ pc' = "done"
                 /\ out' = Append(out,
                       Guidance("GitHub token is required. Pass via --token or set GITHUB_TOKEN."))
                 /\ page' = page
            ELSE pc' = "fetch_pr_files" /\ out' = out /\ page' = 1
       ELSE IF token_missing(gitlab_token(args, env))
            THEN /\ pc' = "done"
                 /\ out' = Append(out,
                       Guidance("GitLab token is required. Pass via --token or set GITLAB_TOKEN."))
                 /\ page' = page
            ELSE pc' = "fetch_mr_files_gitlab" /\ out' = out /\ page' = page
    /\ UNCHANGED <<given, pr_url, args, env, ref, all_files, requests, files,
                   include_tests, summary, diff>>

\* one iteration of fetch_pr_files: the GET and what follows it
GithubGet ==
    /\ pc = "fetch_pr_files"
    /\ \E r \in GithubResponses :
        /\ r.files # <<>> => page <= MaxPages
        /\ LET st == fetch_pr_files_step(all_files, page, r) IN
           /\ requests' = Append(requests,
                             Request("github", page, github_token(args, env), r))
           /\ CASE st.outcome = "raise" ->
                     /\ pc' = "done"
                     /\ out' = Append(out, ApiErrorLine(st.error))
                     /\ files' = files
                     /\ all_files' = <<>>
                     /\ page' = 0
                [] st.outcome = "return" ->
                     /\ pc' = "summarize"
                     /\ out' = out
                     /\ files' = st.all_files
                     /\ all_files' = <<>>
                     /\ page' = 0
                [] st.outcome = "loop" ->
                     /\ pc' = pc
                     /\ out' = out
                     /\ files' = files
                     /\ all_files' = st.all_files
                     /\ page' = st.page
    /\ UNCHANGED <<given, pr_url, args, env, ref, include_tests, summary, diff>>

\* fetch_mr_files_gitlab: the single GET and the normalisation
GitlabGet ==
    /\ pc = "fetch_mr_files_gitlab"
    /\ \E r \in GitlabResponses :
        LET st == fetch_mr_files_gitlab(r) IN
        /\ requests' = Append(requests,
                          Request("gitlab", 0, gitlab_token(args, env), r))
        /\ diff' = r.changes
        /\ IF st.outcome = "raise"
           THEN /\ pc' = "done"
                /\ out' = Append(out, ApiErrorLine(st.error))
                /\ files' = files
           ELSE /\ pc' = "summarize"
                /\ out' = out
                /\ files' = st.file_list
    /\ UNCHANGED <<given, pr_url, args, env, ref, page, all_files, include_tests, summary>>

\* summarize_files and the prints that follow it
Summarize ==
    /\ pc = "summarize"
    /\ summary' = summarize_files(files, include_tests)
    /\ out' = out \o Rendered(summary', include_tests, args.show_files,
                              args.truncate_paths)
    /\ pc' = "done"
    /\ UNCHANGED <<given, pr_url, args, env, ref, page, all_files, requests, files,
                   include_tests, diff>>

Next == Resolve \/ CheckToken \/ GithubGet \/ GitlabGet \/ Summarize

Spec == Init /\ [][Next]_vars

(***************************************************************************)
(* extract_pr_info on every URL of an origin and at most MaxSegs segments.  *)
(***************************************************************************)
InitResolve ==
    /\ pc = "call"
    /\ \/ \E o \in GithubOrigins, q \in SeqsUpTo(GithubSegs, MaxSegs) :
             given = Given(o, q)
       \/ \E o \in GitlabOrigins, q \in SeqsUpTo(GitlabSegs, MaxSegs) :
             given = Given(o, q)
       \/ \E o \in BothOrigins, q \in SeqsUpTo(BothSegs, MaxSegs) :
             given = Given(o, q)
       \/ \E o \in OtherOrigins, q \in SeqsUpTo(OtherSegs, MaxSegs) :
             given = Given(o, q)
    /\ pr_url = MkUrl(given.origin, given.segs)
    /\ args = NoArgs
    /\ env = NoEnv
    /\ include_tests = FALSE
    /\ ref = NoRef
    /\ page = 0
    /\ all_files = <<>>
    /\ requests = <<>>
    /\ files = <<>>
    /\ summary = EmptySummary
    /\ diff = <<>>
    /\ out = <<>>

CallExtract ==
    /\ pc = "call"
    /\ ref' = extract_pr_info(pr_url)
    /\ pc' = "returned"
    /\ UNCHANGED <<given, pr_url, args, env, page, all_files, requests, files,
                   include_tests, summary, diff, out>>

SpecResolve == InitResolve /\ [][CallExtract]_vars

(***************************************************************************)
(* summarize_files on every file list of FileInputs.                       *)
(***************************************************************************)
InitSummarize ==
    /\ pc = "call"
    /\ files \in FileInputs
    /\ include_tests \in BOOLEAN
    /\ given = NoGiven
    /\ pr_url = <<>>
    /\ args = NoArgs
    /\ env = NoEnv
    /\ ref = NoRef
    /\ page = 0
    /\ all_files = <<>>
    /\ requests = <<>>
    /\ summary = EmptySummary
    /\ diff = <<>>
    /\ out = <<>>

CallSummarize ==
    /\ pc = "call"
    /\ summary' = summarize_files(files, include_tests)
    /\ pc' = "returned"
    /\ UNCHANGED <<given, pr_url, args, env, ref, page, all_files, requests, files,
                   include_tests, diff, out>>

SpecSummarize == InitSummarize /\ [][CallSummarize]_vars

(***************************************************************************)
(* The normalisation of fetch_mr_files_gitlab on every enumerated diff.     *)
(***************************************************************************)
InitDiff ==
    /\ pc = "call"
    /\ \/ \E d \in SeqsUpTo(DiffAlphabet, MaxDiffLen) : diff = <<Change(<<"f">>, d)>>
       \/ diff = <<Change(<<"f">>, DiffExample)>>
    /\ given = NoGiven
    /\ pr_url = <<>>
    /\ args = NoArgs
    /\ env = NoEnv
    /\ include_tests = FALSE
    /\ ref = NoRef
    /\ page = 0
    /\ all_files = <<>>
    /\ requests = <<>>
    /\ files = <<>>
    /\ summary = EmptySummary
    /\ out = <<>>

CallFileList ==
    /\ pc = "call"
    /\ files' = gitlab_file_list(diff)
    /\ pc' = "returned"
    /\ UNCHANGED <<given, pr_url, args, env, ref, page, all_files, requests,
                   include_tests, summary, diff, out>>

SpecDiff == InitDiff /\ [][CallFileList]_vars

(***************************************************************************)
(* Properties of summarize_files (SpecSummarize).                          *)
(***************************************************************************)
RECURSIVE SumSeq(_)
SumSeq(q) == IF q = <<>> THEN 0 ELSE Head(q) + SumSeq(Tail(q))

SumAdditions(q) == SumSeq([i \in 1..Len(q) |-> q[i].additions])

SumDeletions(q) == SumSeq([i \in 1..Len(q) |-> q[i].deletions])

SumChanges(q) == SumSeq([i \in 1..Len(q) |-> q[i].changes])

\* the input files the claim expects in the result
Expected(fs, incl) ==
    IF incl THEN fs
    ELSE SelectSeq(fs, LAMBDA f : ~is_test_file(f.filename))

\* C1: with include_tests false the returned file list is exactly the input
\* files that are not test files, in input order, and the three totals count
\* those files only; with include_tests true every input file is retained, in
\* input order, and counted.
C1_RetainedInOrder ==
    pc = "returned" =>
        LET kept == Expected(files, include_tests) IN
        /\ Len(summary.file_changes) = Len(kept)
        /\ \A i \in 1..Len(kept) :
              /\ summary.file_changes[i].path = kept[i].filename
              /\ summary.file_changes[i].additions = kept[i].additions
              /\ summary.file_changes[i].deletions = kept[i].deletions
              /\ summary.file_changes[i].changes = kept[i].changes
        /\ summary.total_added = SumAdditions(kept)
        /\ summary.total_deleted = SumDeletions(kept)
        /\ summary.total_changes = SumChanges(kept)
        /\ include_tests => Len(summary.file_changes) = Len(files)

\* a test file dropped from before a retained file
C1_Witness ==
    /\ pc = "returned"
    /\ ~include_tests
    /\ Len(files) = 2
    /\ is_test_file(files[1].filename)
    /\ files[1].additions > 0
    /\ ~is_test_file(files[2].filename)
    /\ Len(summary.file_changes) = 1
    /\ summary.file_changes[1].path = files[2].filename
    /\ summary.total_added = files[2].additions

\* C2 as stated: for every input file sequence, total_changes is the sum of the
\* retained files' changes and equals total_added + total_deleted.
C2_Additive ==
    pc = "returned" =>
        /\ summary.total_changes = SumChanges(summary.file_changes)
        /\ summary.total_changes = summary.total_added + summary.total_deleted

\* C2 as amended: total_changes is the sum of the retained files' changes, and
\* it equals total_added + total_deleted when every retained file has
\* changes = additions + deletions.
C2_AdditiveOnConsistentFiles ==
    pc = "returned" =>
        /\ summary.total_changes = SumChanges(summary.file_changes)
        /\ (\A i \in 1..Len(summary.file_changes) :
                summary.file_changes[i].changes =
                    summary.file_changes[i].additions + summary.file_changes[i].deletions)
           => summary.total_changes = summary.total_added + summary.total_deleted

\* two retained files with consistent counts, and additions that differ from changes
C2_Witness ==
    /\ pc = "returned"
    /\ Len(summary.file_changes) = 2
    /\ \A i \in 1..2 :
          /\ summary.file_changes[i].changes =
                summary.file_changes[i].additions + summary.file_changes[i].deletions
          /\ summary.file_changes[i].deletions > 0
    /\ summary.total_changes = summary.total_added + summary.total_deleted
    /\ summary.total_changes > summary.total_added

(***************************************************************************)
(* Properties of the diff counting of fetch_mr_files_gitlab (SpecDiff).    *)
(***************************************************************************)
\* the lines of a diff that begin with c, other than those that begin with ccc
Counted(lines, c) ==
    {i \in 1..Len(lines) :
        /\ Len(lines[i]) >= 1
        /\ lines[i][1] = c
        /\ ~(Len(lines[i]) >= 3 /\ lines[i][2] = c /\ lines[i][3] = c)}

NonEmpty(segs) == \A i \in 1..Len(segs) : segs[i] # <<>>

IsDigits(t) == t # <<>> /\ \A i \in 1..Len(t) : t[i] \in Digits

OnGithub == contains(lower(given.origin.host), S_github_com)

OnGitlab == contains(lower(given.origin.host), S_gitlab_com)

\* C3: an URL whose host contains github.com and whose path is
\* <owner>/<repo>/pull/<n> resolves to exactly ('github', owner, repo, n).
C3_GithubShape ==
    (/\ pc = "returned"
     /\ OnGithub
     /\ Len(given.segs) = 4
     /\ NonEmpty(given.segs)
     /\ given.segs[3] = S_pull)
    => ref = Returned("github", given.segs[1], given.segs[2], given.segs[4])

\* a pull request URL on an upper-case host, resolved
C3_Witness ==
    /\ pc = "returned"
    /\ given = Given(O_github_upper, <<<<"o">>, S_pull, S_pull, <<"7">>>>)
    /\ ref.ok
    /\ ref.owner = <<"o">>
    /\ ref.number = <<"7">>

\* C4: an URL whose host contains gitlab.com and whose path is
\* <group>/<project>/-/merge_requests/<n> resolves to ('gitlab', group,
\* project, n); with more segments before the project, the owner is those
\* segments joined with '/' and the repo is the project segment.  (Groups
\* and projects are taken to be any names but "-", and n a string of digits.)
C4_GitlabShape ==
    LET n == Len(given.segs) IN
    (/\ pc = "returned"
     /\ OnGitlab
     /\ n >= 5
     /\ NonEmpty(given.segs)
     /\ \A i \in 1..(n - 3) : given.segs[i] # <<"-">>
     /\ IsDigits(given.segs[n])
     /\ given.segs[n - 2] = <<"-">>
     /\ given.segs[n - 1] = S_merge_requests)
    => ref = Returned("gitlab", join(SubSeq(given.segs, 1, n - 4), "/"),
                      given.segs[n - 3], given.segs[n])

\* C5: on a GitHub host extract_pr_info succeeds only when the path has
\* exactly 4 segments and the second-to-last is 'pull'; every other GitHub
\* URL fails with the invalid-URL error.
C5_GithubExactlyFour ==
    (/\ pc = "returned"
     /\ OnGithub
     /\ NonEmpty(given.segs)
     /\ ~(Len(given.segs) = 4 /\ given.segs[3] = S_pull))
    => (~ref.ok /\ ref.error = "Invalid GitHub PR URL")

\* C6: every reference extract_pr_info returns has a non-empty owner, a
\* non-empty repo and a number that is a string of digits.
C6_WellFormedRef ==
    (pc = "returned" /\ ref.ok)
    => (ref.owner # <<>> /\ ref.repo # <<>> /\ IsDigits(ref.number))

(***************************************************************************)
(* Properties of main and of the fetchers (Spec).                          *)
(***************************************************************************)
Absent == {None, ""}

\* no --token, and no token in the environment variable of the platform
NoTokenFor(platform) ==
    /\ args.token \in Absent
    /\ platform = "github" => env.GITHUB_TOKEN \in Absent
    /\ platform = "gitlab" => env.GITLAB_TOKEN \in Absent

TokenFor(platform) ==
    IF args.token \notin Absent THEN args.token
    ELSE IF platform = "github" THEN env.GITHUB_TOKEN ELSE env.GITLAB_TOKEN

GuidanceOnly == Len(out) = 1 /\ out[1].kind = "guidance"

\* C7: with no token for the detected platform main prints the guidance
\* message and returns with no HTTP request made and no summary printed; a
\* request is made only after the URL resolved and with the non-empty token
\* of that platform.
C7_TokenBeforeRequest ==
    /\ (ref.ok /\ NoTokenFor(ref.platform)) =>
          /\ requests = <<>>
          /\ pc \in {"token", "done"}
          /\ pc = "done" => GuidanceOnly
    /\ \A i \in 1..Len(requests) :
          /\ ref.ok
          /\ requests[i].platform = ref.platform
          /\ requests[i].token \notin Absent
          /\ requests[i].token = TokenFor(ref.platform)

\* main returned on a missing GitLab token although a GitHub token was set
C7_Witness ==
    /\ pc = "done"
    /\ ref.ok
    /\ ref.platform = "gitlab"
    /\ args.token = None
    /\ env.GITLAB_TOKEN = None
    /\ env.GITHUB_TOKEN = "tok"
    /\ GuidanceOnly
    /\ requests = <<>>

RECURSIVE Concat(_)
Concat(pages) == IF pages = <<>> THEN <<>> ELSE Head(pages) \o Concat(Tail(pages))

\* the bodies of the first n responses
Bodies(n) == [i \in 1..n |-> requests[i].response.files]

GoodPage(i) ==
    requests[i].response.status = 200 /\ requests[i].response.files # <<>>

\* pages 1, 2, 3, ... in order, each once, nothing after the first empty page
\* or failure, and the concatenation of the non-empty pages is what is returned
\* (the safety part of C8_Pagination)
C8_PagesInOrder ==
    ref.platform = "github" =>
        /\ \A i \in 1..Len(requests) : requests[i].page = i
        /\ \A i \in 1..(Len(requests) - 1) : GoodPage(i)
        /\ pc = "fetch_pr_files" =>
              /\ page = Len(requests) + 1
              /\ \A i \in 1..Len(requests) : GoodPage(i)
              /\ all_files = Concat(Bodies(Len(requests)))
        /\ pc = "summarize" =>
              /\ requests # <<>>
              /\ requests[Len(requests)].response.status = 200
              /\ requests[Len(requests)].response.files = <<>>
              /\ files = Concat(Bodies(Len(requests) - 1))

\* C8: fetch_pr_files requests pages 1, 2, 3, ... in increasing order, each at
\* most once, stops at the first empty page and returns the concatenation, in
\* page order, of the non-empty pages before it; and it terminates once the
\* server returns an empty page or a failure: with a server that does so at
\* the latest after MaxPages pages, the loop is never stuck and makes at most
\* MaxPages + 1 requests.
C8_Pagination ==
    /\ C8_PagesInOrder
    /\ pc = "fetch_pr_files" => (ENABLED GithubGet /\ page <= MaxPages + 1)
    /\ ref.platform = "github" => Len(requests) <= MaxPages + 1

\* two non-empty pages and an empty one, returned as their concatenation
C8_Witness ==
    /\ pc = "summarize"
    /\ ref.platform = "github"
    /\ Len(requests) = 3
    /\ requests[1].response.files = PageB
    /\ requests[2].response.files = PageA
    /\ files = PageB \o PageA

IsErrorLineOf(l, r) ==
    /\ l.kind = "Error"
    /\ l.err.status = r.status
    /\ l.err.text = r.text
    /\ l.text \in {"GitHub API error", "GitLab API error"}

\* C9: a response with a status other than 200 is not retried, the files
\* accumulated so far are discarded, no totals and no rows are printed, and
\* the run ends after the single line 'Error: <message>' with the status code
\* and the body.
C9_HardFailure ==
    \A i \in 1..Len(requests) :
        requests[i].response.status # 200 =>
            /\ i = Len(requests)
            /\ pc = "done"
            /\ files = <<>>
            /\ all_files = <<>>
            /\ summary = EmptySummary
            /\ Len(out) = 1
            /\ IsErrorLineOf(out[1], requests[i].response)

\* the third GitHub page failed after two pages of files
C9_Witness ==
    /\ pc = "done"
    /\ ref.platform = "github"
    /\ Len(requests) = 3
    /\ GoodPage(1)
    /\ GoodPage(2)
    /\ requests[3].response.status = 500
    /\ Len(out) = 1
    /\ out[1].kind = "Error"

====
